---- MODULE Spec2Model ----
(***************************************************************************)
(* A model of solid-graphql-js:                                            *)
(*   - the scalar codecs of packages/directives/linked-data (ID.ts):       *)
(*     string, date, int, float, url and ID, each with serialize (decode a *)
(*     graph term into a native value) and parseValue (encode a native     *)
(*     value into a graph term);                                           *)
(*   - modifier and SHACLHandler.getMeshSource of                          *)
(*     packages/introspection/shacl (index.ts);                            *)
(*   - nodeFromDirective of lib/directives/properties.ts.                  *)
(* IRIs are abbreviated: "xsd:integer" stands for                          *)
(* http://www.w3.org/2001/XMLSchema#integer, and so on.                    *)
(***************************************************************************)
EXTENDS Integers, Sequences, FiniteSets, TLC

(***************************************************************************)
(* Bounds of the model.                                                    *)
(***************************************************************************)
\* native integers offered to the encoders are -MaxInt .. MaxInt
MaxInt == 2

\* the counts offered to modifier are -1 .. MaxCount
MaxCount == 3

\* a directive has at most MaxEntries arguments
MaxEntries == 2

\* getMeshSource is given at most MaxShapes shapes
MaxShapes == 2

\* the shapes given to getMeshSource have at most MaxProperties properties in all
MaxProperties == 2

(***************************************************************************)
(* RDF/JS terms.  Every term is a record with the same three fields; the   *)
(* datatype of a term that is not a Literal is NoDatatype (undefined in    *)
(* the code, and never read there).                                        *)
(***************************************************************************)
NoDatatype == [termType |-> "None", value |-> ""]

NamedNode(iri) == [termType |-> "NamedNode", value |-> iri, datatype |-> NoDatatype]

BlankNode(label) == [termType |-> "BlankNode", value |-> label, datatype |-> NoDatatype]

Literal(lex, dt) == [termType |-> "Literal", value |-> lex, datatype |-> dt]

NoTerm == [termType |-> "None", value |-> "", datatype |-> NoDatatype]

(***************************************************************************)
(* Native (JavaScript) values: type is what typeof / instanceof tell, s is *)
(* the text of a string or the href of a URL, n is the number (in tenths,  *)
(* so that 15 is 1.5), the boolean (0, 1) or the day of a Date, and        *)
(* s = "NaN" marks the number NaN.                                         *)
(***************************************************************************)
Str(s) == [type |-> "string", s |-> s, n |-> 0]

Num(tenths) == [type |-> "number", s |-> "", n |-> tenths]

NaN == [type |-> "number", s |-> "NaN", n |-> 0]

DateVal(day) == [type |-> "Date", s |-> "", n |-> day]

URLVal(href) == [type |-> "URL", s |-> href, n |-> 0]

Bool(b) == [type |-> "boolean", s |-> "", n |-> IF b THEN 1 ELSE 0]

Undefined == [type |-> "undefined", s |-> "", n |-> 0]

NoVal == [type |-> "none", s |-> "", n |-> 0]

(***************************************************************************)
(* The outcome of a call: a returned term, a returned native value, or a   *)
(* thrown error.  The code throws Error objects told apart by their        *)
(* message; err names the kind of the throw site.                          *)
(***************************************************************************)
OkTerm(t) == [ok |-> TRUE, err |-> "", term |-> t, val |-> NoVal]

OkVal(v) == [ok |-> TRUE, err |-> "", term |-> NoTerm, val |-> v]

Err(e) == [ok |-> FALSE, err |-> e, term |-> NoTerm, val |-> NoVal]

NoOutcome == [ok |-> FALSE, err |-> "not called", term |-> NoTerm, val |-> NoVal]

(***************************************************************************)
(* JavaScript's parseInt(s, 10) and parseFloat(s), computed over the       *)
(* characters of s.  Chars spells the strings of the model that start like *)
(* a number; every other string of the model starts with a letter and is   *)
(* spelt as one run.                                                       *)
(***************************************************************************)
Chars(s) ==
  CASE s = "" -> << >>
    [] s = "0" -> <<"0">>
    [] s = "1" -> <<"1">>
    [] s = "2" -> <<"2">>
    [] s = "3" -> <<"3">>
    [] s = "5" -> <<"5">>
    [] s = "-3" -> <<"-", "3">>
    [] s = "-1" -> <<"-", "1">>
    [] s = "1.5" -> <<"1", ".", "5">>
    [] s = "2x" -> <<"2", "x">>
    [] s = " 1" -> <<" ", "1">>
    [] OTHER -> <<s>>

Digits == <<"0", "1", "2", "3", "4", "5", "6", "7", "8", "9">>

IsDigit(c) == \E i \in 1..10 : Digits[i] = c

DigitVal(c) == (CHOOSE i \in 1..10 : Digits[i] = c) - 1

RECURSIVE SkipSpace(_)
SkipSpace(cs) == IF cs # << >> /\ Head(cs) = " " THEN SkipSpace(Tail(cs)) ELSE cs

RECURSIVE DigitRun(_)
DigitRun(cs) ==
  IF cs # << >> /\ IsDigit(Head(cs)) THEN <<Head(cs)>> \o DigitRun(Tail(cs)) ELSE << >>

RECURSIVE DigitsValue(_, _)
DigitsValue(ds, acc) ==
  IF ds = << >> THEN acc ELSE DigitsValue(Tail(ds), 10 * acc + DigitVal(Head(ds)))

Unsigned(cs) == IF cs # << >> /\ Head(cs) \in {"-", "+"} THEN Tail(cs) ELSE cs

Sign(cs) == IF cs # << >> /\ Head(cs) = "-" THEN -1 ELSE 1

\* parseInt(s, 10): NaN when no digit follows the optional sign
parseInt(s) ==
  LET cs == SkipSpace(Chars(s))
      ds == DigitRun(Unsigned(cs))
  IN  IF ds = << >> THEN NaN ELSE Num(10 * Sign(cs) * DigitsValue(ds, 0))

\* parseFloat(s); the strings of the model have at most one decimal
parseFloat(s) ==
  LET cs == SkipSpace(Chars(s))
      us == Unsigned(cs)
      ds == DigitRun(us)
      rest == SubSeq(us, Len(ds) + 1, Len(us))
      fs == IF rest # << >> /\ Head(rest) = "." THEN DigitRun(Tail(rest)) ELSE << >>
      frac == IF fs = << >> THEN 0 ELSE DigitVal(Head(fs))
  IN  IF ds = << >> /\ fs = << >> THEN NaN
      ELSE Num(Sign(cs) * (10 * DigitsValue(ds, 0) + frac))

isNaN(v) == v.s = "NaN"

HasDot(s) == \E i \in 1..Len(Chars(s)) : Chars(s)[i] = "."


(***************************************************************************)
(* rdf-literal's type handlers, as ID.ts and index.ts use them: the TYPES  *)
(* each handler recognizes (TYPES[1] here is TYPES[0] there), fromRdf with *)
(* validate = true, and toRdf.                                             *)
(***************************************************************************)
Includes(seq, x) == \E i \in 1..Len(seq) : seq[i] = x

TypeHandlerString_TYPES ==
  <<"xsd:string", "xsd:normalizedString", "xsd:anyURI", "xsd:base64Binary",
    "xsd:language", "xsd:Name", "xsd:NCName", "xsd:NMTOKEN", "xsd:token",
    "xsd:hexBinary", "rdf:langString", "xsd:time", "xsd:duration">>

TypeHandlerNumberInteger_TYPES ==
  <<"xsd:integer", "xsd:long", "xsd:int", "xsd:byte", "xsd:short",
    "xsd:negativeInteger", "xsd:nonNegativeInteger", "xsd:nonPositiveInteger",
    "xsd:positiveInteger", "xsd:unsignedByte", "xsd:unsignedInt",
    "xsd:unsignedLong", "xsd:unsignedShort">>

TypeHandlerNumberDouble_TYPES == <<"xsd:double", "xsd:decimal", "xsd:float">>

TypeHandlerDate_TYPES ==
  <<"xsd:dateTime", "xsd:date", "xsd:gDay", "xsd:gMonthDay", "xsd:gYear", "xsd:gYearMonth">>

TypeHandlerBoolean_TYPE == "xsd:boolean"

anyURI == "xsd:anyURI"

\* TypeHandlerString.fromRdf: the lexical value as it is
StringFromRdf(lit) == OkVal(Str(lit.value))

\* TypeHandlerNumberInteger.fromRdf(lit, true): parseInt, and a throw on NaN or on a "."
IntegerFromRdf(lit) ==
  LET parsed == parseInt(lit.value)
  IN  IF isNaN(parsed) \/ HasDot(lit.value) THEN Err("LexicalError") ELSE OkVal(parsed)

\* TypeHandlerNumberDouble.fromRdf(lit, true): parseFloat, and a throw on NaN
DoubleFromRdf(lit) ==
  LET parsed == parseFloat(lit.value)
  IN  IF isNaN(parsed) THEN Err("LexicalError") ELSE OkVal(parsed)

\* Date.prototype.toISOString on the days of the model
toISOString(day) ==
  CASE day = 0 -> "1970-01-01T00:00:00.000Z"
    [] day = 1 -> "1970-01-02T00:00:00.000Z"
    [] OTHER -> "1970-01-03T00:00:00.000Z"

\* the lexical forms TypeHandlerDate's validators accept, per datatype, and their day
DateLexicon ==
  { <<"xsd:dateTime", "1970-01-01T00:00:00.000Z", 0>>,
    <<"xsd:dateTime", "1970-01-02T00:00:00.000Z", 1>>,
    <<"xsd:dateTime", "1970-01-03T00:00:00.000Z", 2>>,
    <<"xsd:dateTime", "1970-01-01T00:00:00Z", 0>>,
    <<"xsd:date", "1970-01-02", 1>> }

\* TypeHandlerDate.fromRdf(lit, true): a throw unless the validator of the datatype matches
DateFromRdf(lit) ==
  IF \E e \in DateLexicon : e[1] = lit.datatype.value /\ e[2] = lit.value
  THEN OkVal(DateVal((CHOOSE e \in DateLexicon :
                        e[1] = lit.datatype.value /\ e[2] = lit.value)[3]))
  ELSE Err("LexicalError")

\* new URL(v): the href of the strings of the model that are URLs; a throw on the others
URLLexicon ==
  { <<"http://a/", "http://a/">>, <<"HTTP://A", "http://a/">>, <<"http://b/x", "http://b/x">> }

NewURL(v) ==
  IF \E e \in URLLexicon : e[1] = v
  THEN OkVal(URLVal((CHOOSE e \in URLLexicon : e[1] = v)[2]))
  ELSE Err("LexicalError")

\* String(v) of a native value that is not a number
StringOf(v) ==
  CASE v.type = "string" -> v.s
    [] v.type = "URL" -> v.s
    [] v.type = "Date" -> toISOString(v.n)
    [] v.type = "boolean" -> IF v.n = 1 THEN "true" ELSE "false"
    [] OTHER -> "undefined"

\* toRdf of a number handler is defined on numbers.  On any other value it
\* builds a literal of the family from String(value) or throws: every such
\* outcome is allowed.
NumberToRdfOfNonNumber(value, TYPES) ==
  {Err("LibraryError")}
    \cup {OkTerm(Literal(StringOf(value), NamedNode(TYPES[i]))) : i \in 1..Len(TYPES)}

(***************************************************************************)
(* The codecs of ID.ts.  The error kinds name the throw sites:             *)
(*   ShapeMismatch      "Expected Literal term", "Expected ... NamedNode"  *)
(*   MalformedDatatype  "Expected datatype to be a NamedNode"              *)
(*   DatatypeMismatch   "Expected a string type", "Expected a anyURI type" *)
(*   LexicalError       a throw of fromRdf(value, true) or of new URL(v)   *)
(*   ResultType         "Expected node to have ... value"                  *)
(*   TypeMismatch       the throw of parseValue                            *)
(***************************************************************************)
stringSerialize(value) ==
  IF value.termType # "Literal" THEN Err("ShapeMismatch")
  ELSE IF value.datatype.termType # "NamedNode" THEN Err("MalformedDatatype")
  ELSE IF ~Includes(TypeHandlerString_TYPES, value.datatype.value) THEN Err("DatatypeMismatch")
  ELSE LET result == StringFromRdf(value)
       IN  IF ~result.ok THEN result
           ELSE IF result.val.type # "string" THEN Err("ResultType")
           ELSE result

stringParseValue(value) ==
  IF value.type # "string" THEN Err("TypeMismatch")
  ELSE OkTerm(Literal(value.s, NamedNode("xsd:string")))

dateSerialize(value) ==
  IF value.termType # "Literal" THEN Err("ShapeMismatch")
  ELSE IF value.datatype.termType # "NamedNode" THEN Err("MalformedDatatype")
  ELSE IF ~Includes(TypeHandlerDate_TYPES, value.datatype.value) THEN Err("DatatypeMismatch")
  ELSE LET result == DateFromRdf(value)
       IN  IF ~result.ok THEN result
           ELSE IF result.val.type # "Date" THEN Err("ResultType")
           ELSE result

dateParseValue(value) ==
  IF value.type # "Date" THEN Err("TypeMismatch")
  ELSE OkTerm(Literal(toISOString(value.n), NamedNode(TypeHandlerDate_TYPES[1])))

\* intSerialize without the check of the datatype IRI
intSerializeNoDatatypeCheck(value) ==
  IF value.termType # "Literal" THEN Err("ShapeMismatch")
  ELSE IF value.datatype.termType # "NamedNode" THEN Err("MalformedDatatype")
  ELSE LET result == IntegerFromRdf(value)
       IN  IF ~result.ok THEN result
           ELSE IF result.val.type = "number" THEN Err("ResultType")
           ELSE result

intSerialize(value) ==
  IF value.termType # "Literal" THEN Err("ShapeMismatch")
  ELSE IF value.datatype.termType # "NamedNode" THEN Err("MalformedDatatype")
  ELSE IF ~Includes(TypeHandlerNumberInteger_TYPES, value.datatype.value)
       THEN Err("DatatypeMismatch")
  ELSE LET result == IntegerFromRdf(value)
       IN  IF ~result.ok THEN result
           ELSE IF result.val.type = "number" THEN Err("ResultType")
           ELSE result

\* the outcomes of int's parseValue
intParseValue(value) ==
  IF value.type = "number" THEN {Err("TypeMismatch")}
  ELSE NumberToRdfOfNonNumber(value, TypeHandlerNumberInteger_TYPES)

floatSerialize(value) ==
  IF value.termType # "Literal" THEN Err("ShapeMismatch")
  ELSE IF value.datatype.termType # "NamedNode" THEN Err("MalformedDatatype")
  ELSE IF ~Includes(TypeHandlerNumberDouble_TYPES, value.datatype.value)
       THEN Err("DatatypeMismatch")
  ELSE LET result == DoubleFromRdf(value)
       IN  IF ~result.ok THEN result
           ELSE IF result.val.type = "number" THEN Err("ResultType")
           ELSE result

\* the outcomes of float's parseValue
floatParseValue(value) ==
  IF value.type = "number" THEN {Err("TypeMismatch")}
  ELSE NumberToRdfOfNonNumber(value, TypeHandlerNumberDouble_TYPES)

urlSerialize(value) ==
  IF value.termType # "Literal" THEN Err("ShapeMismatch")
  ELSE IF value.datatype.termType # "NamedNode" THEN Err("MalformedDatatype")
  ELSE IF value.datatype.value # anyURI THEN Err("DatatypeMismatch")
  ELSE NewURL(value.value)

urlParseValue(value) ==
  IF value.type # "URL" THEN Err("TypeMismatch")
  ELSE OkTerm(Literal(value.s, NamedNode(anyURI)))

\* IDSerialize that also takes the lexical value of a Literal as the id
IDSerializeAcceptsLiteral(value) ==
  IF value.termType \notin {"NamedNode", "Literal"} THEN Err("ShapeMismatch")
  ELSE OkVal(Str(value.value))

IDSerialize(value) ==
  IF value.termType # "NamedNode" THEN Err("ShapeMismatch")
  ELSE OkVal(Str(value.value))

IDParseValue(value) ==
  IF value.type # "string" THEN Err("TypeMismatch")
  ELSE OkTerm(NamedNode(value.s))


(***************************************************************************)
(* GraphQL output types: a named type under a stack of wrappers, the       *)
(* outermost first.  GraphQLNonNull(GraphQLList(GraphQLNonNull(Int))) is   *)
(* [wrap |-> <<"NonNull", "List", "NonNull">>, name |-> "Int"].            *)
(***************************************************************************)
Named(name) == [wrap |-> << >>, name |-> name]

GraphQLNonNull(type) == [wrap |-> <<"NonNull">> \o type.wrap, name |-> type.name]

GraphQLList(type) == [wrap |-> <<"List">> \o type.wrap, name |-> type.name]

NoType == [wrap |-> << >>, name |-> ""]

TypeOk(t) == [ok |-> TRUE, err |-> "", type |-> t]

TypeErr(e) == [ok |-> FALSE, err |-> e, type |-> NoType]

NoTypeOutcome == [ok |-> FALSE, err |-> "not called", type |-> NoType]

Infinity == [type |-> "number", s |-> "Infinity", n |-> 0]

\* a < b and a > b on JavaScript numbers: false as soon as one side is NaN
Less(a, b) ==
  /\ ~isNaN(a) /\ ~isNaN(b)
  /\ a # Infinity
  /\ (b = Infinity \/ a.n < b.n)

Greater(a, b) == Less(b, a)

(***************************************************************************)
(* modifier of index.ts.  An argument that is undefined takes its default: *)
(* minCount = 0, maxCount = Infinity.                                      *)
(***************************************************************************)
\* modifier that makes the list itself optional when minCount is 0
modifierOptionalList(type, minCountArg, maxCountArg) ==
  LET minCount == IF minCountArg = Undefined THEN Num(0) ELSE minCountArg
      maxCount == IF maxCountArg = Undefined THEN Infinity ELSE maxCountArg
  IN  IF Less(maxCount, Num(10)) THEN TypeErr("InvalidConstraint")
      ELSE IF Greater(maxCount, Num(10))
           THEN IF minCount = Num(0) THEN TypeOk(GraphQLList(GraphQLNonNull(type)))
                ELSE TypeOk(GraphQLNonNull(GraphQLList(GraphQLNonNull(type))))
      ELSE IF minCount = Num(10) THEN TypeOk(GraphQLNonNull(type))
      ELSE IF minCount = Num(0) THEN TypeOk(type)
      ELSE TypeErr("InvalidConstraint")

modifier(type, minCountArg, maxCountArg) ==
  LET minCount == IF minCountArg = Undefined THEN Num(0) ELSE minCountArg
      maxCount == IF maxCountArg = Undefined THEN Infinity ELSE maxCountArg
  IN  IF Less(maxCount, Num(10)) THEN TypeErr("InvalidConstraint")
      ELSE IF Greater(maxCount, Num(10))
           THEN TypeOk(GraphQLNonNull(GraphQLList(GraphQLNonNull(type))))
      ELSE IF minCount = Num(10) THEN TypeOk(GraphQLNonNull(type))
      ELSE IF minCount = Num(0) THEN TypeOk(type)
      ELSE TypeErr("InvalidConstraint")

(***************************************************************************)
(* nodeFromDirective of properties.ts.  A directive is undefined or an     *)
(* object, given as Object.entries gives it: a sequence of <<key, value>>  *)
(* with distinct keys.  mapping has the own key "iri"; `key in mapping`    *)
(* also holds of the keys it inherits from Object.prototype.               *)
(***************************************************************************)
NoDirective == <<<<"undefined", Undefined>>>>

\* Object.keys(mapping)
MappingKeys == {"iri"}

\* the keys of the model that mapping inherits from Object.prototype
ObjectPrototypeKeys == {"toString", "constructor", "valueOf"}

\* key in mapping
KeyInMapping(key) == key \in MappingKeys \cup ObjectPrototypeKeys

\* mapping[key](value): DataFactory.namedNode for "iri"; an inherited member
\* otherwise: Object.prototype.toString gives "[object Object]", the Object
\* constructor wraps the string in an object, valueOf gives mapping itself
MappingCall(key, value) ==
  CASE key = "iri" -> OkTerm(NamedNode(value.s))
    [] key = "toString" -> OkVal(Str("[object Object]"))
    [] key = "constructor" -> OkVal([type |-> "object", s |-> value.s, n |-> 0])
    [] OTHER -> OkVal([type |-> "object", s |-> "mapping", n |-> 0])

nodeFromDirective(directive) ==
  IF directive = NoDirective THEN Err("ArityError")
  ELSE LET entries == directive
       IN  IF Len(entries) # 1 THEN Err("ArityError")
           ELSE LET key == entries[1][1]
                    value == entries[1][2]
                IN  IF value.type # "string" THEN Err("TypeError")
                    ELSE IF KeyInMapping(key) THEN MappingCall(key, value)
                    ELSE Err("UnknownKey")


(***************************************************************************)
(* The pure part of SHACLHandler.getMeshSource (index.ts).                 *)
(***************************************************************************)
\* mappings: the handlers' TYPES and the GraphQL type of each, in order
mappings ==
  << <<TypeHandlerString_TYPES, Named("String")>>,
     <<TypeHandlerNumberInteger_TYPES, Named("Int")>>,
     <<TypeHandlerNumberDouble_TYPES, Named("Double")>>,
     <<TypeHandlerDate_TYPES, Named("Date")>>,
     << <<TypeHandlerBoolean_TYPE>>, Named("Boolean")>> >>

\* getDatatype: the type of the first mapping that includes the IRI, else undefined (NoType)
getDatatype(type) ==
  IF \E i \in 1..Len(mappings) : Includes(mappings[i][1], type.value)
  THEN mappings[CHOOSE i \in 1..Len(mappings) :
                  /\ Includes(mappings[i][1], type.value)
                  /\ \A j \in 1..(i - 1) : ~Includes(mappings[j][1], type.value)][2]
  ELSE NoType

getDatatypeSafe(type) == IF type.termType = "NamedNode" THEN getDatatype(type) ELSE NoType

\* camelize of ./utils, on the names of the model
camelize(text) ==
  CASE text = "first name" -> "firstName"
    [] text = "First Name" -> "firstName"
    [] text = "first-name" -> "firstName"
    [] OTHER -> text

\* !v of a string or undefined
Falsy(v) == v = Undefined \/ v = Str("")

FieldOk(name, field) == [ok |-> TRUE, err |-> "", name |-> name, field |-> field]

NoField == [iri |-> "", type |-> NoType, description |-> Undefined]

FieldErr(e) == [ok |-> FALSE, err |-> e, name |-> "", field |-> NoField]

\* the count handed to modifier: parseInt of the first value, undefined without one
CountArg(count) == IF Len(count) > 0 THEN parseInt(count[1].value) ELSE Undefined

\* the body of the property loop with the name taken from the path when
\* the property has no name literal
compilePropertyPathFallback(p) ==
  LET fieldType == IF Len(p.datatype) = 1 THEN getDatatypeSafe(p.datatype[1]) ELSE NoType
      fieldName == IF Len(p.name) = 1 /\ p.name[1].termType = "Literal"
                   THEN Str(camelize(p.name[1].value))
                   ELSE Str(p.path.value)
      modified == modifier(fieldType, CountArg(p.minCount), CountArg(p.maxCount))
      description == IF Len(p.description) = 1 /\ p.description[1].termType = "Literal"
                     THEN Str(p.description[1].value)
                     ELSE Undefined
  IN  IF fieldType = NoType THEN FieldErr("UnresolvedFieldType")
      ELSE IF ~modified.ok THEN FieldErr(modified.err)
      ELSE IF p.path.termType # "NamedNode" THEN FieldErr("UnsupportedPath")
      ELSE IF Falsy(fieldName) THEN FieldErr("MissingFieldName")
      ELSE FieldOk(fieldName.s,
                   [iri |-> p.path.value, type |-> modified.type, description |-> description])

\* the body of the property loop with the field name required right after
\* the field type, before the cardinality and the path
compilePropertyNameFirst(p) ==
  LET fieldType == IF Len(p.datatype) = 1 THEN getDatatypeSafe(p.datatype[1]) ELSE NoType
      fieldName == IF Len(p.name) = 1 /\ p.name[1].termType = "Literal"
                   THEN Str(camelize(p.name[1].value))
                   ELSE Undefined
      modified == modifier(fieldType, CountArg(p.minCount), CountArg(p.maxCount))
      description == IF Len(p.description) = 1 /\ p.description[1].termType = "Literal"
                     THEN Str(p.description[1].value)
                     ELSE Undefined
  IN  IF fieldType = NoType THEN FieldErr("UnresolvedFieldType")
      ELSE IF Falsy(fieldName) THEN FieldErr("MissingFieldName")
      ELSE IF ~modified.ok THEN FieldErr(modified.err)
      ELSE IF p.path.termType # "NamedNode" THEN FieldErr("UnsupportedPath")
      ELSE FieldOk(fieldName.s,
                   [iri |-> p.path.value, type |-> modified.type, description |-> description])

\* The body of the property loop after its eight lookups (lines 143-194):
\* the field it inserts under its name, or the error it throws.
\*   UnresolvedFieldType  "Field type should be defined by now"
\*   InvalidConstraint    a throw of modifier
\*   UnsupportedPath      "Path should be a NameNode"
\*   MissingFieldName     "Expected field name to be defined by this point"
compileProperty(p) ==
  LET fieldType == IF Len(p.datatype) = 1 THEN getDatatypeSafe(p.datatype[1]) ELSE NoType
      fieldName == IF Len(p.name) = 1 /\ p.name[1].termType = "Literal"
                   THEN Str(camelize(p.name[1].value))
                   ELSE Undefined
      modified == modifier(fieldType, CountArg(p.minCount), CountArg(p.maxCount))
      description == IF Len(p.description) = 1 /\ p.description[1].termType = "Literal"
                     THEN Str(p.description[1].value)
                     ELSE Undefined
  IN  IF fieldType = NoType THEN FieldErr("UnresolvedFieldType")
      ELSE IF ~modified.ok THEN FieldErr(modified.err)
      ELSE IF p.path.termType # "NamedNode" THEN FieldErr("UnsupportedPath")
      ELSE IF Falsy(fieldName) THEN FieldErr("MissingFieldName")
      ELSE FieldOk(fieldName.s,
                   [iri |-> p.path.value, type |-> modified.type, description |-> description])

\* an insertion that keeps the field already under the name
SetFieldKeepsFirst(fields, name, field) ==
  [n \in (DOMAIN fields) \cup {name} |-> IF n \in DOMAIN fields THEN fields[n] ELSE field]

\* propertyFields[fieldName] = field
SetField(fields, name, field) ==
  [n \in (DOMAIN fields) \cup {name} |-> IF n = name THEN field ELSE fields[n]]

\* v[0]?.value
FirstValue(v) == IF Len(v) > 0 THEN Str(v[1].value) ELSE Undefined

\* createObject of ./utils: the compiled type
createObject(name, class, properties, description) ==
  [name |-> name, class |-> class, properties |-> properties, description |-> description]

\* new GraphQLSchema({ types }) throws on two types of one name
UniquelyNamed(ts) == \A i, j \in 1..Len(ts) : ts[i].name = ts[j].name => i = j

(***************************************************************************)
(* State.                                                                  *)
(*   codec calls:   family, native, term, encoded, decoded, cpc            *)
(*   modifier:      modArgs, modOut                                        *)
(*   directive:     directive, node                                        *)
(*   getMeshSource: hasShapes and shapes are this.shapes and what the      *)
(*                  source holds about them; pc, step, si and pi are the   *)
(*                  position in the loops; outstanding counts the lookups  *)
(*                  awaited; shapeLoc and propLoc are the results held in  *)
(*                  the locals; propertyFields and types are the locals of *)
(*                  these names; result is the schema returned or the      *)
(*                  error thrown.                                          *)
(***************************************************************************)
VARIABLES family, native, term, encoded, decoded, cpc,
          modArgs, modOut,
          directive, node,
          hasShapes, shapes, pc, step, si, pi, outstanding,
          shapeLoc, propLoc, propertyFields, types, result

codecVars == <<family, native, term, encoded, decoded, cpc>>

modVars == <<modArgs, modOut>>

dirVars == <<directive, node>>

meshVars ==
  <<hasShapes, shapes, pc, step, si, pi, outstanding,
    shapeLoc, propLoc, propertyFields, types, result>>

vars == <<codecVars, modVars, dirVars, meshVars>>

\* no codec call, no modifier call, no directive in this run
CodecIdle ==
  /\ family = "none" /\ native = NoVal /\ term = NoTerm
  /\ encoded = NoOutcome /\ decoded = NoOutcome /\ cpc = "idle"

NoModArgs == [type |-> NoType, minCount |-> Undefined, maxCount |-> Undefined]

ModIdle == modArgs = NoModArgs /\ modOut = NoTypeOutcome

DirIdle == directive = NoDirective /\ node = NoOutcome

NoShapeLoc == [targetClass |-> << >>, property |-> << >>, name |-> << >>, description |-> << >>]

NoPropLoc ==
  [path |-> NoTerm, datatype |-> << >>, nodeKind |-> << >>, class |-> << >>,
   name |-> << >>, maxCount |-> << >>, minCount |-> << >>, description |-> << >>]

SchemaOk(ts) == [ok |-> TRUE, err |-> "", schema |-> ts]

SchemaErr(e) == [ok |-> FALSE, err |-> e, schema |-> << >>]

NoResult == [ok |-> FALSE, err |-> "not returned", schema |-> << >>]

MeshIdle ==
  /\ hasShapes = FALSE /\ shapes = << >> /\ pc = "idle" /\ step = 0 /\ si = 0 /\ pi = 0
  /\ outstanding = 0 /\ shapeLoc = NoShapeLoc /\ propLoc = NoPropLoc
  /\ propertyFields = << >> /\ types = << >> /\ result = NoResult

(***************************************************************************)
(* The inputs of the codec calls.                                          *)
(***************************************************************************)
Families == {"string", "date", "int", "float", "url", "ID"}

DatatypeIRIs ==
  {"xsd:string", "xsd:anyURI", "xsd:integer", "xsd:long", "xsd:double", "xsd:decimal",
   "xsd:dateTime", "xsd:date", "xsd:boolean", "ex:foreign"}

Lexicals ==
  {"", "abc", "5", "-3", "1.5", "2x", "http://a/", "HTTP://A",
   "1970-01-01T00:00:00.000Z", "1970-01-01T00:00:00Z", "1970-01-02"}

InputTerms ==
  {NamedNode("http://a/"), NamedNode("ex:x"), BlankNode("b0")}
    \cup {Literal(lex, NamedNode(dt)) : lex \in Lexicals, dt \in DatatypeIRIs}
    \cup {Literal("5", BlankNode("xsd:integer")), Literal("abc", BlankNode("xsd:string"))}

InputNatives ==
  {Str(""), Str("abc"), Str("5"), Str("http://a/"), Str("not an iri")}
    \cup {Num(10 * i) : i \in -MaxInt..MaxInt}
    \cup {Num(15), NaN}
    \cup {DateVal(0), DateVal(1)}
    \cup {URLVal("http://a/"), URLVal("http://b/x")}
    \cup {Bool(TRUE), Undefined}

InitCodec ==
  /\ family \in Families
  /\ \/ cpc = "encode" /\ native \in InputNatives /\ term = NoTerm
     \/ cpc = "decode" /\ native = NoVal /\ term \in InputTerms
  /\ encoded = NoOutcome
  /\ decoded = NoOutcome
  /\ ModIdle /\ DirIdle /\ MeshIdle

\* parseValue returned or threw `out`; a returned term goes on to serialize
Encoded(out) ==
  /\ encoded' = out
  /\ term' = out.term
  /\ cpc' = IF out.ok THEN "decode" ELSE "done"
  /\ UNCHANGED <<family, native, decoded, modVars, dirVars, meshVars>>

\* serialize returned or threw `out`
Decoded(out) ==
  /\ decoded' = out
  /\ cpc' = "done"
  /\ UNCHANGED <<family, native, term, encoded, modVars, dirVars, meshVars>>

StringParseValue == cpc = "encode" /\ family = "string" /\ Encoded(stringParseValue(native))

StringSerialize == cpc = "decode" /\ family = "string" /\ Decoded(stringSerialize(term))

DateParseValue == cpc = "encode" /\ family = "date" /\ Encoded(dateParseValue(native))

DateSerialize == cpc = "decode" /\ family = "date" /\ Decoded(dateSerialize(term))

IntParseValue ==
  cpc = "encode" /\ family = "int" /\ \E out \in intParseValue(native) : Encoded(out)

IntSerialize == cpc = "decode" /\ family = "int" /\ Decoded(intSerialize(term))

FloatParseValue ==
  cpc = "encode" /\ family = "float" /\ \E out \in floatParseValue(native) : Encoded(out)

FloatSerialize == cpc = "decode" /\ family = "float" /\ Decoded(floatSerialize(term))

UrlParseValue == cpc = "encode" /\ family = "url" /\ Encoded(urlParseValue(native))

UrlSerialize == cpc = "decode" /\ family = "url" /\ Decoded(urlSerialize(term))

IDParse == cpc = "encode" /\ family = "ID" /\ Encoded(IDParseValue(native))

IDSerial == cpc = "decode" /\ family = "ID" /\ Decoded(IDSerialize(term))

NextCodec ==
  \/ StringParseValue \/ StringSerialize
  \/ DateParseValue \/ DateSerialize
  \/ IntParseValue \/ IntSerialize
  \/ FloatParseValue \/ FloatSerialize
  \/ UrlParseValue \/ UrlSerialize
  \/ IDParse \/ IDSerial

SpecCodec == InitCodec /\ [][NextCodec]_vars


(***************************************************************************)
(* Claims about the codecs, checked under SpecCodec.                       *)
(***************************************************************************)
\* the native type a family's parseValue expects
ExpectedType(f) ==
  CASE f \in {"string", "ID"} -> "string"
    [] f \in {"int", "float"} -> "number"
    [] f = "date" -> "Date"
    [] OTHER -> "URL"

\* a valid native value of a family: an integer for int, a finite number for float
ValidNative(f, v) ==
  /\ v.type = ExpectedType(f)
  /\ f \in {"int", "float"} => v.s = ""
  /\ f = "int" => v.n % 10 = 0

LiteralFamilies == {"string", "date", "int", "float", "url"}

SetOf(seq) == {seq[i] : i \in 1..Len(seq)}

\* the datatype IRIs a family recognizes
Recognized(f) ==
  CASE f = "string" -> SetOf(TypeHandlerString_TYPES)
    [] f = "date" -> SetOf(TypeHandlerDate_TYPES)
    [] f = "int" -> SetOf(TypeHandlerNumberInteger_TYPES)
    [] f = "float" -> SetOf(TypeHandlerNumberDouble_TYPES)
    [] OTHER -> {anyURI}

\* the value a family reads from the lexical form of a literal, or the throw
Parsed(f, lit) ==
  CASE f = "string" -> StringFromRdf(lit)
    [] f = "date" -> DateFromRdf(lit)
    [] f = "int" -> IntegerFromRdf(lit)
    [] f = "float" -> DoubleFromRdf(lit)
    [] OTHER -> NewURL(lit.value)

\* a Literal whose datatype is an IRI
IsLiteral(t) == t.termType = "Literal" /\ t.datatype.termType = "NamedNode"

SerializeCalled == decoded # NoOutcome

ParseValueCalled == encoded # NoOutcome

\* C1: for every family and every valid native value v, parseValue succeeds
\* and serialize of its result returns v.
C1_RoundTrip ==
  (cpc = "done" /\ native # NoVal /\ ValidNative(family, native))
    => (encoded.ok /\ decoded = OkVal(native))

\* C2: serialize of a literal family fails with ShapeMismatch on a term that
\* is no Literal, else with DatatypeMismatch on a datatype IRI the family does
\* not recognize (whatever the lexical value), else with LexicalError on a
\* lexical value that does not parse.
C2_DecodeChecksInOrder ==
  (family \in LiteralFamilies /\ SerializeCalled) =>
    /\ term.termType # "Literal" => decoded = Err("ShapeMismatch")
    /\ (IsLiteral(term) /\ term.datatype.value \notin Recognized(family))
         => decoded = Err("DatatypeMismatch")
    /\ (IsLiteral(term) /\ term.datatype.value \in Recognized(family)
          /\ ~Parsed(family, term).ok)
         => decoded = Err("LexicalError")

\* C2 witness: int's serialize met "5" tagged xsd:double and threw DatatypeMismatch
C2_Witness ==
  /\ family = "int"
  /\ term = Literal("5", NamedNode("xsd:double"))
  /\ decoded = Err("DatatypeMismatch")

\* C3: parseValue fails with TypeMismatch exactly when the native value has
\* not the type the family expects, and returns a term otherwise.
C3_EncodeTypeMismatchExactly ==
  ParseValueCalled =>
    /\ (encoded = Err("TypeMismatch")) <=> (native.type # ExpectedType(family))
    /\ native.type = ExpectedType(family) => encoded.ok

\* C4: serialize of int and float returns the number that a literal of a
\* recognized datatype with a parsable lexical value denotes.
C4_NumericDecodeSucceeds ==
  (family \in {"int", "float"} /\ SerializeCalled /\ IsLiteral(term)
     /\ term.datatype.value \in Recognized(family) /\ Parsed(family, term).ok)
    => decoded = Parsed(family, term)

\* C5: ID's serialize succeeds exactly on a NamedNode and returns its IRI, so
\* it fails on every Literal; ID's parseValue wraps every string in a
\* NamedNode, unvalidated, and fails on every other value.
C5_IDCodec ==
  family = "ID" =>
    /\ SerializeCalled =>
         /\ decoded.ok <=> term.termType = "NamedNode"
         /\ decoded.ok => decoded = OkVal(Str(term.value))
         /\ ~decoded.ok => decoded = Err("ShapeMismatch")
    /\ ParseValueCalled =>
         /\ native.type = "string" => encoded = OkTerm(NamedNode(native.s))
         /\ native.type # "string" => encoded = Err("TypeMismatch")

\* C5 witness: a Literal whose lexical value is a well-formed IRI was rejected
C5_Witness ==
  /\ family = "ID"
  /\ term = Literal("http://a/", NamedNode("xsd:anyURI"))
  /\ decoded = Err("ShapeMismatch")


(***************************************************************************)
(* modifier as a call: SpecModifier draws the arguments and applies it.    *)
(***************************************************************************)
BaseTypes == {Named("String"), Named("Int")}

CountArgs == {Undefined, NaN} \cup {Num(10 * i) : i \in -1..MaxCount}

InitModifier ==
  /\ modArgs \in [type : BaseTypes, minCount : CountArgs, maxCount : CountArgs]
  /\ modOut = NoTypeOutcome
  /\ CodecIdle /\ DirIdle /\ MeshIdle

Modifier ==
  /\ modArgs # NoModArgs
  /\ modOut = NoTypeOutcome
  /\ modOut' = modifier(modArgs.type, modArgs.minCount, modArgs.maxCount)
  /\ UNCHANGED <<modArgs, codecVars, dirVars, meshVars>>

NextModifier == Modifier

SpecModifier == InitModifier /\ [][NextModifier]_vars

\* an integer
IsInteger(c) == c.type = "number" /\ c.s = "" /\ c.n % 10 = 0

Absent(c) == c = Undefined

\* C6: modifier agrees with the table, for minCount and maxCount each an
\* integer or absent: maxCount < 1 fails; maxCount absent or > 1 gives a
\* required list of required type; maxCount = 1 gives a required scalar for
\* minCount = 1, the type itself for minCount absent or 0, and fails for
\* every other minCount.
C6_ModifierTable ==
  LET min == modArgs.minCount
      max == modArgs.maxCount
      type == modArgs.type
  IN  (modOut # NoTypeOutcome
         /\ (Absent(min) \/ IsInteger(min)) /\ (Absent(max) \/ IsInteger(max)))
        =>
        /\ (~Absent(max) /\ max.n < 10) => modOut = TypeErr("InvalidConstraint")
        /\ (Absent(max) \/ max.n > 10)
             => modOut = TypeOk([wrap |-> <<"NonNull", "List", "NonNull">>,
                                 name |-> type.name])
        /\ (~Absent(max) /\ max.n = 10 /\ ~Absent(min) /\ min.n = 10)
             => modOut = TypeOk([wrap |-> <<"NonNull">>, name |-> type.name])
        /\ (~Absent(max) /\ max.n = 10 /\ (Absent(min) \/ min.n = 0))
             => modOut = TypeOk(type)
        /\ (~Absent(max) /\ max.n = 10 /\ ~Absent(min) /\ min.n \notin {0, 10})
             => modOut = TypeErr("InvalidConstraint")

\* C6 witness: minCount 0 with maxCount 2 gave the required list
C6_Witness ==
  /\ modArgs.minCount = Num(0)
  /\ modArgs.maxCount = Num(20)
  /\ modOut = TypeOk(GraphQLNonNull(GraphQLList(GraphQLNonNull(modArgs.type))))

(***************************************************************************)
(* nodeFromDirective as a call: SpecDirective draws the directive.         *)
(***************************************************************************)
DirectiveKeys == {"iri", "foo", "toString", "constructor"}

DirectiveValues == {Str("https://example.org/x"), Str(""), Num(10), Undefined}

DistinctKeys(entries) ==
  \A i, j \in 1..Len(entries) : i # j => entries[i][1] # entries[j][1]

Directives ==
  {NoDirective}
    \cup {d \in UNION {[1..k -> DirectiveKeys \X DirectiveValues] : k \in 0..MaxEntries} :
            DistinctKeys(d)}

InitDirective ==
  /\ directive \in Directives
  /\ node = NoOutcome
  /\ CodecIdle /\ ModIdle /\ MeshIdle

NodeFromDirective ==
  /\ node = NoOutcome
  /\ node' = nodeFromDirective(directive)
  /\ UNCHANGED <<directive, codecVars, modVars, meshVars>>

NextDirective == NodeFromDirective

SpecDirective == InitDirective /\ [][NextDirective]_vars

\* C9: nodeFromDirective returns the NamedNode of the text exactly when the
\* argument has the single key "iri" with a text value; otherwise it fails
\* with ArityError (no argument, or not exactly one key), else TypeError
\* (value not text), else UnknownKey (every key other than "iri").
C9_ResolveIdentifier ==
  node # NoOutcome =>
    LET one == directive # NoDirective /\ Len(directive) = 1
        key == directive[1][1]
        value == directive[1][2]
    IN  /\ ~one => node = Err("ArityError")
        /\ (one /\ value.type # "string") => node = Err("TypeError")
        /\ (one /\ value.type = "string" /\ key # "iri") => node = Err("UnknownKey")
        /\ (one /\ value.type = "string" /\ key = "iri") => node = OkTerm(NamedNode(value.s))
        /\ node.ok => (one /\ value.type = "string" /\ key = "iri")


(***************************************************************************)
(* getMeshSource.  A shape is what the source holds about it: the values   *)
(* of sh:targetClass, sh:property, sh:name and sh:description; a property  *)
(* is the value of sh:path and the values of its other seven predicates.   *)
(***************************************************************************)
ShapeSteps == <<"targetClass", "property", "name", "description">>

PropertySteps ==
  <<"path", "datatype", "nodeKind", "class", "name", "maxCount", "minCount", "description">>

\* queryObjects(config, subject, predicate), and queryObject for sh:path
queryObjects(subject, predicate) == subject[predicate]

Count(lex) == <<Literal(lex, NamedNode("xsd:integer"))>>

Text(lex) == <<Literal(lex, NamedNode("xsd:string"))>>

Property(path, datatype, name, maxCount, minCount, description) ==
  [path |-> path, datatype |-> datatype, nodeKind |-> << >>, class |-> << >>,
   name |-> name, maxCount |-> maxCount, minCount |-> minCount, description |-> description]

Shape(header, properties) ==
  [targetClass |-> header.targetClass, property |-> properties,
   name |-> header.name, description |-> header.description]

\* three properties that compile (the first two derive the same field name)
\* and one property for each way of failing
PropertyPool ==
  { Property(NamedNode("ex:p1"), <<NamedNode("xsd:string")>>, Text("first name"),
             << >>, << >>, << >>),
    Property(NamedNode("ex:p2"), <<NamedNode("xsd:integer")>>, Text("First Name"),
             Count("1"), Count("1"), Text("d")),
    Property(NamedNode("ex:p3"), <<NamedNode("xsd:date")>>, Text("age"),
             Count("1"), Count("0"), << >>),
    Property(NamedNode("ex:p1"), << >>, Text("age"), << >>, << >>, << >>),
    Property(NamedNode("ex:p1"), <<NamedNode("xsd:string")>>, Text("age"),
             Count("0"), << >>, << >>),
    Property(BlankNode("b0"), <<NamedNode("xsd:string")>>, Text("age"), << >>, << >>, << >>),
    Property(NamedNode("ex:p1"), <<NamedNode("xsd:string")>>, << >>, << >>, << >>, << >>) }

HeaderPool ==
  { [targetClass |-> <<NamedNode("ex:Person")>>, name |-> Text("Person"),
     description |-> Text("A person")],
    [targetClass |-> << >>, name |-> Text("Pet"), description |-> << >>] }

\* the properties of shape i, when property a of the sequence flat belongs
\* to shape owner[a] and owner never decreases
PropertiesOf(flat, owner, i) ==
  LET before == Cardinality({a \in DOMAIN owner : owner[a] < i})
      own == Cardinality({a \in DOMAIN owner : owner[a] = i})
  IN  SubSeq(flat, before + 1, before + own)

\* the state at the call of getMeshSource
InitMesh ==
  /\ pc = "start" /\ step = 0 /\ si = 0 /\ pi = 0 /\ outstanding = 0
  /\ shapeLoc = NoShapeLoc /\ propLoc = NoPropLoc
  /\ propertyFields = << >> /\ types = << >> /\ result = NoResult
  /\ CodecIdle /\ ModIdle /\ DirIdle

\* this.shapes is undefined, or at most MaxShapes shapes of the header pool
\* with at most MaxProperties properties of the property pool in all
Init ==
  /\ InitMesh
  /\ \/ hasShapes = FALSE /\ shapes = << >>
     \/ /\ hasShapes = TRUE
        /\ \E n \in 0..MaxShapes, t \in 0..MaxProperties :
             \E hs \in [1..n -> HeaderPool], flat \in [1..t -> PropertyPool],
                owner \in [1..t -> 1..n] :
               /\ \A a, b \in 1..t : a < b => owner[a] <= owner[b]
               /\ shapes = [i \in 1..n |-> Shape(hs[i], PropertiesOf(flat, owner, i))]

\* a throw leaves getMeshSource: the promise rejects with the error
Throw(e) ==
  /\ pc' = "done"
  /\ result' = SchemaErr(e)
  /\ UNCHANGED <<hasShapes, shapes, step, si, pi, outstanding,
                 shapeLoc, propLoc, propertyFields, types>>

\* the top of the loop over this.shapes, for shape i, or the return past the last
EnterShape(i) ==
  /\ IF i <= Len(shapes) THEN pc' = "shape" /\ step' = 1 ELSE pc' = "return" /\ step' = 0
  /\ si' = i
  /\ pi' = 0
  /\ propertyFields' = << >>
  /\ shapeLoc' = NoShapeLoc

\* lines 106-113: the guard on this.shapes and types = []
Start ==
  /\ pc = "start"
  /\ IF ~hasShapes THEN Throw("NotImplemented")
     ELSE /\ EnterShape(1)
          /\ types' = << >>
          /\ UNCHANGED <<hasShapes, shapes, outstanding, propLoc, result>>
  /\ UNCHANGED <<codecVars, modVars, dirVars>>

\* the lookups of a shape or of a property handed to the query service
\* together, as Promise.all would, and awaited after
IssueQueryConcurrent ==
  /\ pc \in {"shape", "property"}
  /\ outstanding <= Len(IF pc = "shape" THEN ShapeSteps ELSE PropertySteps) - step
  /\ outstanding' = outstanding + 1
  /\ UNCHANGED <<hasShapes, shapes, pc, step, si, pi, shapeLoc, propLoc,
                 propertyFields, types, result>>
  /\ UNCHANGED <<codecVars, modVars, dirVars>>

\* a lookup is handed to the query service and awaited
IssueQuery ==
  /\ pc \in {"shape", "property"}
  /\ outstanding = 0
  /\ outstanding' = outstanding + 1
  /\ UNCHANGED <<hasShapes, shapes, pc, step, si, pi, shapeLoc, propLoc,
                 propertyFields, types, result>>
  /\ UNCHANGED <<codecVars, modVars, dirVars>>

\* the top of the loop over properties, for property i, or line 199 past the last
EnterProperty(i, properties) ==
  /\ IF i <= Len(properties) THEN pc' = "property" /\ step' = 1 ELSE pc' = "push" /\ step' = 0
  /\ pi' = i
  /\ propLoc' = NoPropLoc

\* lines 119-122: an awaited lookup on the shape completes
CompleteShapeQuery ==
  /\ pc = "shape"
  /\ outstanding > 0
  /\ outstanding' = outstanding - 1
  /\ LET loc == [shapeLoc EXCEPT
                   ![ShapeSteps[step]] = queryObjects(shapes[si], ShapeSteps[step])]
     IN  /\ shapeLoc' = loc
         /\ IF step < Len(ShapeSteps)
            THEN step' = step + 1 /\ UNCHANGED <<pc, pi, propLoc>>
            ELSE EnterProperty(1, loc.property)
  /\ UNCHANGED <<hasShapes, shapes, si, propertyFields, types, result>>
  /\ UNCHANGED <<codecVars, modVars, dirVars>>

\* lines 133-140: an awaited lookup on the property completes
CompletePropertyQuery ==
  /\ pc = "property"
  /\ outstanding > 0
  /\ outstanding' = outstanding - 1
  /\ propLoc' = [propLoc EXCEPT
                   ![PropertySteps[step]] =
                      queryObjects(shapeLoc.property[pi], PropertySteps[step])]
  /\ IF step < Len(PropertySteps)
     THEN step' = step + 1 /\ pc' = pc
     ELSE step' = 0 /\ pc' = "compile"
  /\ UNCHANGED <<hasShapes, shapes, si, pi, shapeLoc, propertyFields, types, result>>
  /\ UNCHANGED <<codecVars, modVars, dirVars>>

\* a property loop that skips a property whose body throws
CompilePropertyDropsBad ==
  /\ pc = "compile"
  /\ LET out == compileProperty(propLoc)
     IN  /\ propertyFields' = IF out.ok THEN SetField(propertyFields, out.name, out.field)
                              ELSE propertyFields
         /\ EnterProperty(pi + 1, shapeLoc.property)
         /\ UNCHANGED <<hasShapes, shapes, si, outstanding, shapeLoc, types, result>>
  /\ UNCHANGED <<codecVars, modVars, dirVars>>

\* lines 143-194: the field of the property is inserted, or the error thrown
CompileProperty ==
  /\ pc = "compile"
  /\ LET out == compileProperty(propLoc)
     IN  IF ~out.ok THEN Throw(out.err)
         ELSE /\ propertyFields' = SetField(propertyFields, out.name, out.field)
              /\ EnterProperty(pi + 1, shapeLoc.property)
              /\ UNCHANGED <<hasShapes, shapes, si, outstanding, shapeLoc, types, result>>
  /\ UNCHANGED <<codecVars, modVars, dirVars>>

\* lines 199-207: the compiled type is appended; shName[0].value throws without a name
PushType ==
  /\ pc = "push"
  /\ IF Len(shapeLoc.name) = 0 THEN Throw("TypeError")
     ELSE /\ types' = Append(types,
                             createObject(shapeLoc.name[1].value,
                                          FirstValue(shapeLoc.targetClass),
                                          propertyFields,
                                          FirstValue(shapeLoc.description)))
          /\ EnterShape(si + 1)
          /\ UNCHANGED <<hasShapes, shapes, outstanding, propLoc, result>>
  /\ UNCHANGED <<codecVars, modVars, dirVars>>

\* lines 210-214: the schema of the types is returned
ReturnSchema ==
  /\ pc = "return"
  /\ IF ~UniquelyNamed(types) THEN Throw("SchemaError")
     ELSE /\ pc' = "done"
          /\ result' = SchemaOk(types)
          /\ UNCHANGED <<hasShapes, shapes, step, si, pi, outstanding,
                         shapeLoc, propLoc, propertyFields, types>>
  /\ UNCHANGED <<codecVars, modVars, dirVars>>

Next ==
  \/ Start
  \/ IssueQuery
  \/ CompleteShapeQuery
  \/ CompletePropertyQuery
  \/ CompileProperty
  \/ PushType
  \/ ReturnSchema

Spec == Init /\ [][Next]_vars


(***************************************************************************)
(* SpecProperty: getMeshSource on one shape with one property, the         *)
(* property drawn from every combination of what its predicates can hold.  *)
(***************************************************************************)
PathPool == {NamedNode("ex:p1"), BlankNode("b0")}

DatatypePool ==
  {<< >>, <<NamedNode("xsd:integer")>>, <<NamedNode("ex:foreign")>>,
   <<NamedNode("xsd:integer"), NamedNode("xsd:string")>>}

NamePool ==
  {<< >>, Text("first name"), Text(""), <<NamedNode("ex:name")>>, Text("a") \o Text("b")}

CountPool == {<< >>, Count("0"), Count("1"), Count("2"), Count("x"), Count("1.5")}

DescriptionPool == {<< >>, Text("d")}

AllProperties ==
  {Property(path, datatype, name, maxCount, minCount, description) :
     path \in PathPool, datatype \in DatatypePool, name \in NamePool,
     maxCount \in CountPool, minCount \in CountPool, description \in DescriptionPool}

AllHeaders ==
  { [targetClass |-> <<NamedNode("ex:Person")>>, name |-> Text("Person"),
     description |-> Text("A person")],
    [targetClass |-> << >>, name |-> << >>, description |-> << >>],
    [targetClass |-> << >>, name |-> <<NamedNode("ex:PersonShape")>>, description |-> << >>],
    [targetClass |-> << >>, name |-> <<BlankNode("b0")>>, description |-> << >>],
    [targetClass |-> << >>, name |-> Text(""), description |-> << >>],
    [targetClass |-> << >>, name |-> Text("Person") \o Text("Human"), description |-> << >>] }

InitProperty ==
  /\ InitMesh
  /\ \/ hasShapes = FALSE /\ shapes = << >>
     \/ /\ hasShapes = TRUE
        /\ \E h \in AllHeaders, p \in AllProperties : shapes = <<Shape(h, <<p>>)>>

SpecProperty == InitProperty /\ [][Next]_vars

(***************************************************************************)
(* Claims about getMeshSource.                                             *)
(***************************************************************************)
\* the property has exactly one name value and it is a Literal
HasNameLiteral(p) == Len(p.name) = 1 /\ p.name[1].termType = "Literal"

\* the positions <<i, k>> of the properties of the input, in processing order
Positions == UNION {{<<i, k>> : k \in 1..Len(shapes[i].property)} : i \in 1..Len(shapes)}

PropertyAt(ik) == shapes[ik[1]].property[ik[2]]

Before(a, b) == a[1] < b[1] \/ (a[1] = b[1] /\ a[2] < b[2])

Finished == pc = "done" /\ hasShapes

\* C7: two or more properties of a shape that derive the same field name
\* never make the compilation fail, and the compiled type has one field under
\* that name: the field of the last such property; the fields under other
\* names are those of their own properties.
C7_LastWriteWins ==
  /\ \A i \in 1..Len(types) :
       LET ps == shapes[i].property
           fields == types[i].properties
       IN  /\ DOMAIN fields = {compileProperty(ps[k]).name : k \in 1..Len(ps)}
           /\ \A k \in 1..Len(ps) :
                (\A l \in (k + 1)..Len(ps) :
                   compileProperty(ps[l]).name # compileProperty(ps[k]).name)
                  => fields[compileProperty(ps[k]).name] = compileProperty(ps[k]).field
  /\ (Finished /\ (\A ik \in Positions : compileProperty(PropertyAt(ik)).ok)
        /\ (\A i, j \in 1..Len(shapes) : shapes[i].name = shapes[j].name => i = j)
        /\ (\A i \in 1..Len(shapes) : Len(shapes[i].name) > 0))
       => result.ok

\* C7 witness: a schema was returned for a shape whose two properties derive
\* one field name and differ in iri, type and description
C7_Witness ==
  /\ result.ok
  /\ \E i \in 1..Len(shapes) :
       LET ps == shapes[i].property
       IN  /\ Len(ps) = 2
           /\ compileProperty(ps[1]).name = compileProperty(ps[2]).name
           /\ compileProperty(ps[1]).field.iri # compileProperty(ps[2]).field.iri
           /\ compileProperty(ps[1]).field.type # compileProperty(ps[2]).field.type
           /\ compileProperty(ps[1]).field.description
                # compileProperty(ps[2]).field.description
           /\ DOMAIN result.schema[i].properties = {compileProperty(ps[2]).name}

\* C8 as stated: a property without exactly one name Literal makes the
\* compilation fail with MissingFieldName.
C8_FailsWithMissingFieldName ==
  (Finished /\ \E ik \in Positions : ~HasNameLiteral(PropertyAt(ik)))
    => result = SchemaErr("MissingFieldName")

\* the requirements the loop body checks before the field name
PassesEarlierChecks(p) ==
  /\ Len(p.datatype) = 1 /\ getDatatypeSafe(p.datatype[1]) # NoType
  /\ modifier(getDatatypeSafe(p.datatype[1]), CountArg(p.minCount), CountArg(p.maxCount)).ok
  /\ p.path.termType = "NamedNode"

\* C8 amended: a property without exactly one name Literal makes the
\* compilation fail, with no schema returned and no field ever held under a
\* name that is not derived from a name Literal; the error is
\* MissingFieldName when everything processed before that property compiled
\* and the property's type resolves, its counts pass modifier and its path is
\* a NamedNode.
C8_MissingNameFails ==
  /\ \A n \in DOMAIN propertyFields :
       \E ik \in Positions :
         /\ HasNameLiteral(PropertyAt(ik))
         /\ n = camelize(PropertyAt(ik).name[1].value)
  /\ \A ik \in Positions :
       (Finished /\ ~HasNameLiteral(PropertyAt(ik))) =>
         /\ ~result.ok
         /\ result.schema = << >>
         /\ ( /\ PassesEarlierChecks(PropertyAt(ik))
              /\ \A b \in Positions : Before(b, ik) => compileProperty(PropertyAt(b)).ok
              /\ \A i \in 1..(ik[1] - 1) : Len(shapes[i].name) > 0 )
              => result = SchemaErr("MissingFieldName")

\* C8 witness: the only defect of the property is its name, a NamedNode,
\* and the compilation failed with MissingFieldName
C8_Witness ==
  /\ Finished
  /\ Len(shapes) = 1 /\ Len(shapes[1].property) = 1
  /\ shapes[1].property[1].name = <<NamedNode("ex:name")>>
  /\ PassesEarlierChecks(shapes[1].property[1])
  /\ result = SchemaErr("MissingFieldName")

\* C10: a schema is returned only with one compiled type per shape, in
\* order, and every property of every shape compiled into a field of its
\* type; when some property fails, getMeshSource fails and returns nothing.
C10_AllOrNothing ==
  /\ result.ok =>
       /\ pc = "done"
       /\ Len(result.schema) = Len(shapes)
       /\ \A i \in 1..Len(shapes) : result.schema[i].name = shapes[i].name[1].value
       /\ \A ik \in Positions :
            /\ compileProperty(PropertyAt(ik)).ok
            /\ compileProperty(PropertyAt(ik)).name
                 \in DOMAIN result.schema[ik[1]].properties
  /\ (Finished /\ \E ik \in Positions : ~compileProperty(PropertyAt(ik)).ok)
       => (~result.ok /\ result.schema = << >>)
  /\ pc # "done" => result = NoResult

\* C10 witness: the first shape was compiled, a property of the second
\* failed, and nothing was returned
C10_Witness ==
  /\ Finished
  /\ ~result.ok
  /\ Len(types) = 1
  /\ Len(shapes) = 2
  /\ ~compileProperty(shapes[2].property[1]).ok

\* the shape has exactly one name value and it is a Literal
HasShapeNameLiteral(s) == Len(s.name) = 1 /\ s.name[1].termType = "Literal"

\* the properties of shape i all compile, so that line 199 is reached for it
PropertiesCompile(i) ==
  \A k \in 1..Len(shapes[i].property) : compileProperty(shapes[i].property[k]).ok

\* C11: a shape without exactly one name Literal (no name, a non-literal
\* name, several names), its properties compiled, makes the compilation fail
\* with MissingShapeName; and no compiled type has an empty name or a name
\* that is not the one name Literal of its shape.
C11_FailsWithMissingShapeName ==
  /\ \A i \in 1..Len(shapes) :
       (Finished /\ ~HasShapeNameLiteral(shapes[i])
          /\ \A j \in 1..i : PropertiesCompile(j))
         => result = SchemaErr("MissingShapeName")
  /\ \A i \in 1..Len(types) :
       /\ types[i].name # ""
       /\ HasShapeNameLiteral(shapes[i])
       /\ types[i].name = shapes[i].name[1].value

\* the lexical value is an integer: an optional sign, then digits and nothing else
ParsesAsInteger(lex) ==
  LET us == Unsigned(Chars(lex))
  IN  us # << >> /\ DigitRun(us) = us

\* the count is present and its lexical value is not an integer
Unparsable(count) == Len(count) > 0 /\ ~ParsesAsInteger(count[1].value)

\* the property passes the steps before the cardinality: its type resolves
\* and it has a name
TypedAndNamed(p) ==
  /\ Len(p.datatype) = 1 /\ getDatatypeSafe(p.datatype[1]) # NoType
  /\ HasNameLiteral(p) /\ p.name[1].value # ""

\* C12: a typed and named property whose minCount or maxCount is present
\* and does not parse as an integer makes the compilation fail with
\* InvalidConstraint, whatever the other count is, and no field is emitted
\* for it.
C12_UnparsableCountFails ==
  \A ik \in Positions :
    LET p == PropertyAt(ik)
    IN  (TypedAndNamed(p) /\ (Unparsable(p.minCount) \/ Unparsable(p.maxCount))) =>
          /\ Finished => result = SchemaErr("InvalidConstraint")
          /\ (si = ik[1] /\ Len(shapes[si].property) = 1) => propertyFields = << >>
          /\ \A i \in 1..Len(types) :
               (i = ik[1] /\ Len(shapes[i].property) = 1) => types[i].properties = << >>

\* The four requirements on a property, each on its own.
\* no type: not exactly one datatype, or one that no handler recognizes
ViolatesType(p) ==
  ~ (/\ Len(p.datatype) = 1
     /\ p.datatype[1].termType = "NamedNode"
     /\ \E i \in 1..Len(mappings) : Includes(mappings[i][1], p.datatype[1].value))

\* no name: not exactly one name Literal, or one that gives the empty name
ViolatesName(p) == ~HasNameLiteral(p) \/ camelize(p.name[1].value) = ""

\* the counts as parseInt reads them are refused: maxCount below 1, or
\* maxCount not above 1 and minCount neither 0 nor 1
ViolatesCardinality(p) ==
  LET min == IF Len(p.minCount) = 0 THEN Num(0) ELSE parseInt(p.minCount[1].value)
      max == IF Len(p.maxCount) = 0 THEN Infinity ELSE parseInt(p.maxCount[1].value)
  IN  \/ Less(max, Num(10))
      \/ ~Greater(max, Num(10)) /\ min \notin {Num(0), Num(10)}

\* the path is not a single Identifier
ViolatesPath(p) == p.path.termType # "NamedNode"

\* how many of the four requirements the property violates
Violations(p) ==
  Cardinality({r \in {"type", "name", "cardinality", "path"} :
                 \/ r = "type" /\ ViolatesType(p)
                 \/ r = "name" /\ ViolatesName(p)
                 \/ r = "cardinality" /\ ViolatesCardinality(p)
                 \/ r = "path" /\ ViolatesPath(p)})

\* the error of the first requirement violated, in the order type, name,
\* cardinality, path
DocumentedOrderError(p) ==
  IF ViolatesType(p) THEN "UnresolvedFieldType"
  ELSE IF ViolatesName(p) THEN "MissingFieldName"
  ELSE IF ViolatesCardinality(p) THEN "InvalidConstraint"
  ELSE IF ViolatesPath(p) THEN "UnsupportedPath"
  ELSE ""

\* the error of the first requirement violated, in the order type,
\* cardinality, path, name
ThrowOrderError(p) ==
  IF ViolatesType(p) THEN "UnresolvedFieldType"
  ELSE IF ViolatesCardinality(p) THEN "InvalidConstraint"
  ELSE IF ViolatesPath(p) THEN "UnsupportedPath"
  ELSE IF ViolatesName(p) THEN "MissingFieldName"
  ELSE ""

\* C13 as stated: a property that violates several requirements makes the
\* compilation fail with the error of the first violated in the order
\* (1) UnresolvedFieldType, (2) MissingFieldName, (3) InvalidConstraint,
\* (4) UnsupportedPath.
C13_EarliestDocumentedStep ==
  \A ik \in Positions :
    (Finished /\ Violations(PropertyAt(ik)) >= 2
       /\ \A b \in Positions : Before(b, ik) => compileProperty(PropertyAt(b)).ok)
      => result = SchemaErr(DocumentedOrderError(PropertyAt(ik)))

\* C13 amended: a property that violates several requirements makes the
\* compilation fail with the error of the first violated in the order
\* (1) UnresolvedFieldType, (2) InvalidConstraint, (3) UnsupportedPath,
\* (4) MissingFieldName.
C13_EarliestThrow ==
  \A ik \in Positions :
    (Finished /\ Violations(PropertyAt(ik)) >= 2
       /\ \A b \in Positions : Before(b, ik) => compileProperty(PropertyAt(b)).ok)
      => result = SchemaErr(ThrowOrderError(PropertyAt(ik)))

\* C13 witness: a property with a type, no name Literal and a blank-node
\* path failed with UnsupportedPath; one with no name Literal and maxCount 0
\* would fail the same way with InvalidConstraint
C13_Witness ==
  /\ Finished
  /\ Len(shapes) = 1 /\ Len(shapes[1].property) = 1
  /\ LET p == shapes[1].property[1]
     IN  /\ ~ViolatesType(p) /\ ~ViolatesCardinality(p)
         /\ ViolatesName(p) /\ ViolatesPath(p)
         /\ p.name = << >>
  /\ result = SchemaErr("UnsupportedPath")

\* the lookups of the shape and of the property in hand completed so far
\* are the first ones in the order of the code, the others are not made
LookupsInOrder ==
  /\ pc = "shape" =>
       \A k \in 1..Len(ShapeSteps) :
         shapeLoc[ShapeSteps[k]] =
           IF k < step THEN shapes[si][ShapeSteps[k]] ELSE NoShapeLoc[ShapeSteps[k]]
  /\ pc = "property" =>
       \A k \in 1..Len(PropertySteps) :
         propLoc[PropertySteps[k]] =
           IF k < step THEN shapes[si].property[pi][PropertySteps[k]]
           ELSE NoPropLoc[PropertySteps[k]]
  /\ pc \in {"property", "compile", "push"} => shapeLoc = shapes[si]
  /\ pc = "compile" => (outstanding = 0 /\ propLoc = shapes[si].property[pi])
  /\ pc = "push" => (outstanding = 0 /\ pi = Len(shapes[si].property) + 1)

\* the types appended so far are those of the first shapes, in their order
TypesInOrder ==
  /\ pc \in {"shape", "property", "compile", "push"} => Len(types) = si - 1
  /\ \A i \in 1..Len(types) :
       /\ types[i].name = shapes[i].name[1].value
       /\ types[i].class = FirstValue(shapes[i].targetClass)
       /\ types[i].description = FirstValue(shapes[i].description)
       /\ DOMAIN types[i].properties =
            {compileProperty(shapes[i].property[k]).name :
               k \in 1..Len(shapes[i].property)}

\* a lookup is issued only when none is outstanding
IssuedAlone == outstanding' > outstanding => (outstanding = 0 /\ outstanding' = 1)

\* shapes are taken one after the other, and so are the properties of a shape
TakenInOrder ==
  /\ si' # si => (si' = si + 1 /\ pc \in {"start", "push"})
  /\ (si' = si /\ pi' # pi) => (pi' = pi + 1 /\ pc \in {"shape", "compile"})

\* a field is inserted only for the property in hand, its eight lookups completed
FieldAfterLookups ==
  (propertyFields' # propertyFields /\ propertyFields' # << >>) =>
    /\ pc = "compile" /\ outstanding = 0
    /\ propLoc = shapes[si].property[pi]
    /\ \E n \in DOMAIN propertyFields' :
         propertyFields' = SetField(propertyFields, n, propertyFields'[n])

\* a type is appended only for the shape in hand, its properties all processed
TypeAfterProperties ==
  types' # types =>
    /\ pc = "push" /\ outstanding = 0
    /\ pi = Len(shapes[si].property) + 1
    /\ Len(types') = si
    /\ SubSeq(types', 1, Len(types)) = types
    /\ types'[si].properties = propertyFields

\* C14: during getMeshSource at most one lookup is outstanding at any
\* time; shapes are processed in input order and properties in the order
\* returned; a field is inserted only after the eight lookups of its property
\* (path, datatype, nodeKind, class, name, maxCount, minCount, description)
\* completed; a type is appended only after all the properties of its shape
\* were processed, so that the types are in the order of the shapes.
C14_OneLookupAtATime ==
  /\ [](outstanding \in {0, 1} /\ LookupsInOrder /\ TypesInOrder)
  /\ [][IssuedAlone /\ TakenInOrder /\ FieldAfterLookups /\ TypeAfterProperties]_vars

\* C14 witness: the last lookup of the first property of the second shape
\* is outstanding, the type of the first shape appended with its field
C14_Witness ==
  /\ pc = "property" /\ outstanding = 1
  /\ si = 2 /\ pi = 1 /\ step = Len(PropertySteps)
  /\ Len(types) = 1 /\ types[1].properties # << >>
  /\ propertyFields = << >>

====
